---- MODULE Spec2Model ----
EXTENDS Integers, Sequences, FiniteSets

(***************************************************************************)
(* Model of the Unreliable resource state machine (src/Unreliable.ts) and  *)
(* of the restart Daemon built on it (src/Daemon.ts).                      *)
(*                                                                         *)
(* One action is one synchronous run of code: an external call, a timer    *)
(* callback, an event of the underlying handle, or the code that follows   *)
(* an `await` once the awaited promise has settled.                        *)
(***************************************************************************)

\* ---------------------------------------------------------------- bounds
MaxAttemptBound == 2    \* maxAttempt is drawn from 1..MaxAttemptBound
MaxExternalCalls == 3   \* external calls of start()/stop(), on either object
MaxHandles == 2         \* underlying objects created
MaxHandleEvents == 1    \* events the underlying objects emit by themselves

RetryDelays == {0, 2000}

\* ------------------------------------------------------- names (enums)
\* FakeProcess.meta.states
U_INIT == "init"
U_STARTING == "starting"
U_START_FAILED == "start-failed"
U_RUNNING == "running"
U_STOPPING == "stopping"
U_STOPPED == "stopped"

AllStates == {U_INIT, U_STARTING, U_START_FAILED, U_RUNNING, U_STOPPING,
              U_STOPPED}

\* FakeProcess.meta.stateConf
startableStates == {U_INIT, U_START_FAILED, U_STOPPED}
stoppableStates == {U_RUNNING, U_STOPPING}

\* DaemonStatus
INIT == "init"
STARTING == "starting"
RUNNING == "running"
RETRY_SCHEDULED == "retry-scheduled"
DEAD == "dead"

\* DaemonEvents
EV_STARTING == "starting"
EV_START_FAILED == "start-failed"
EV_RUNNING == "running"
EV_RETRY_SCHEDULED == "retry-scheduled"
EV_DIED == "died"

\* What the abstract stop hook _stop() may do: only initiate the shutdown,
\* emit the death event synchronously (FakeProcess), or throw.
StopHooks == {"initiate", "emitDeath", "throw"}

\* FakeProcess.meta.stateConf: the events whose waiters are aborted
abortOnDeath == <<"starting", "running">>
abortOnStartFailure == <<"running", "stopped">>

\* The states waitForState() is called for: those of the events above.
WaitStates == {U_STARTING, U_RUNNING, U_STOPPED}

VARIABLES
  maxAttempt,   \* Daemon.maxAttempt
  retryDelay,   \* Daemon.retryDelay
  uState,       \* Unreliable._state
  uObj,         \* Unreliable._uObj: a handle id, 0 for null
  uDisp,        \* Unreliable._disposables: the handles listened to
  live,         \* handles created and not yet dead
  nEvents,      \* events the handles have emitted by themselves so far
  handled,      \* handles for whose death event _onDeath has run so far
  nHandles,     \* handles created so far
  calls,        \* Unreliable.start() invocations suspended at an await
  dState,       \* Daemon._state
  retryTimer,   \* Daemon._retryTimer: attempt of the referenced timer, 0 for null
  timers,       \* armed setTimeout callbacks, each the attempt it will run
  dDisp,        \* Daemon._disposables: once-listeners on the stopped transition
  log,          \* Daemon broadcasts since the last external Daemon.start()
                \* or, if later, since the last RUNNING broadcast (included)
  emitted,      \* Daemon broadcasts of the last step
  uEmitted,     \* resource broadcasts of the last step
  trace,        \* what else the resource did in the last step, in order:
                \* hooks invoked, waiters aborted, errors swallowed
  thrown,       \* the error the last step threw at its external caller, or
                \* rejected the promise it had returned to it with
  jobs,         \* abortOnDeath() invocations suspended at their race
  returned,     \* abortOnDeath() invocations that returned in the last step
  waiters,      \* pending waitFor() promises of the resource, per event
  woken,        \* waiters settled in the last step
  waited,       \* what the waitForState() call of the last step did
  dWaiters,     \* pending waitFor(RUNNING) promises of the Daemon
  dWoken,       \* what happened to the Daemon's RUNNING waiters in the last step
  step,         \* the operation, handler or continuation that ran last, and
                \* a bit that flips when the same one runs twice in a row
  stopFrom,     \* status in which Daemon.stop() was first called since the
                \* last Daemon.start(), "none" if it was not
  startFoundTimer, \* the last Daemon.start() found a retry timer pending
  nStart,       \* external Daemon.start() calls so far
  nStop,        \* external Daemon.stop() calls so far
  nUser,        \* direct Unreliable.start()/stop() calls so far
  nWait,        \* direct Unreliable.waitForState() calls so far
  nDWait        \* direct Daemon.waitFor(RUNNING) calls so far

conf == <<maxAttempt, retryDelay>>
prog == <<uState, uObj, uDisp, live, handled, nHandles, calls, dState, retryTimer,
          timers, dDisp, log, emitted, uEmitted, trace, thrown, jobs,
          returned, waiters, woken, waited, dWaiters, dWoken, step>>
hist == <<nStart, nStop, nUser, nWait, nDWait, stopFrom, startFoundTimer>>
world == <<nEvents>>
vars == <<conf, prog, hist, world>>

\* ------------------------------------------------------------- helpers
RemoveAt(seq, i) == SubSeq(seq, 1, i - 1) \o SubSeq(seq, i + 1, Len(seq))

RECURSIVE RemoveFirst(_, _)
RemoveFirst(seq, x) ==
  IF seq = <<>> THEN <<>>
  ELSE IF Head(seq) = x THEN Tail(seq)
  ELSE <<Head(seq)>> \o RemoveFirst(Tail(seq), x)

\* no waitForState() call was made in the step
NotWaited == [dst |-> "", how |-> "none"]

\* The program state as one record, so that handlers compose sequentially.
Cur ==
  [uState |-> uState, uObj |-> uObj, uDisp |-> uDisp, live |-> live,
   handled |-> handled,
   nHandles |-> nHandles, calls |-> calls, dState |-> dState,
   retryTimer |-> retryTimer, timers |-> timers, dDisp |-> dDisp,
   log |-> log, emitted |-> <<>>, uEmitted |-> <<>>, trace |-> <<>>,
   thrown |-> "none", jobs |-> jobs, returned |-> <<>>,
   waiters |-> waiters, woken |-> <<>>, waited |-> NotWaited,
   dWaiters |-> dWaiters, dWoken |-> <<>>]

\* The step ends in the program state t (evaluated once).
Commit(t) ==
  \E s \in {t} :
    /\ uState' = s.uState
    /\ uObj' = s.uObj
    /\ uDisp' = s.uDisp
    /\ live' = s.live
    /\ handled' = s.handled
    /\ nHandles' = s.nHandles
    /\ calls' = s.calls
    /\ dState' = s.dState
    /\ retryTimer' = s.retryTimer
    /\ timers' = s.timers
    /\ dDisp' = s.dDisp
    /\ log' = s.log
    /\ emitted' = s.emitted
    /\ uEmitted' = s.uEmitted
    /\ trace' = s.trace
    /\ thrown' = s.thrown
    /\ jobs' = s.jobs
    /\ returned' = s.returned
    /\ waiters' = s.waiters
    /\ woken' = s.woken
    /\ waited' = s.waited
    /\ dWaiters' = s.dWaiters
    /\ dWoken' = s.dWoken

\* Something the resource does besides broadcasting: k says what, ev is the
\* event whose waiters are aborted, err the error and h the handle it carries.
\* `at` counts the resource's broadcasts made before it in the step; uObj and
\* uDisp are the fields as they are at that moment.
Effect(s, k, ev, err, h) ==
  [s EXCEPT !.trace = Append(@, [k |-> k, ev |-> ev, err |-> err, h |-> h,
                                 at |-> Len(s.uEmitted), uObj |-> s.uObj,
                                 uDisp |-> s.uDisp])]

\* try { ... } catch {}: an error thrown by the block goes no further
Swallow(s) ==
  IF s.thrown = "none" THEN s
  ELSE [Effect(s, "swallow", "", s.thrown, 0) EXCEPT !.thrown = "none"]

\* EventBarrier: the pending waiters of the event ev are settled, resolved by
\* notify(ev, ...) or rejected by abort(ev, err), and leave the barrier.
SettleWaiters(s, ev, how, err, h) ==
  IF s.waiters[ev] = 0 THEN s
  ELSE [s EXCEPT !.woken = Append(@, [ev |-> ev, n |-> s.waiters[ev],
                                       how |-> how, err |-> err, h |-> h,
                                       at |-> Len(s.uEmitted)]),
                 !.waiters[ev] = 0]

\* this.abort(event, err)
abort(s, ev, err, h) ==
  SettleWaiters(Effect(s, "abort", ev, err, h), ev, "abort", err, h)

\* for (const event of events) this.abort(event, err)
RECURSIVE AbortEach(_, _, _, _)
AbortEach(s, events, err, h) ==
  IF events = <<>> THEN s
  ELSE AbortEach(abort(s, Head(events), err, h), Tail(events), err, h)

\* ------------------------------------------------------- Daemon (part 1)
\* What identifies a StartFailureError: nthAttempt and retryIn.
StartFailure(nthAttempt, retryIn) == [n |-> nthAttempt, retryIn |-> retryIn]
NoFailure == StartFailure(0, 0)

\* The pending waiters of the Daemon's RUNNING event are settled (n of them),
\* after `at` broadcasts of the step and in the status `seen`.
DaemonSettle(s, how, err) ==
  [s EXCEPT !.dWoken = Append(@, [how |-> how, n |-> s.dWaiters, err |-> err,
                                   at |-> Len(s.emitted), seen |-> s.dState])]

\* this.abort(DaemonEvents.RUNNING, startFailure)
Daemon_abort(s, err) ==
  [DaemonSettle(s, "abort", err) EXCEPT !.dWaiters = 0]

\* daemon.waitFor(DaemonEvents.RUNNING, timeout, signal)
Daemon_waitFor(s) == [s EXCEPT !.dWaiters = @ + 1]

\* the timeout of a waiter of RUNNING expires, or its signal is aborted
Daemon_waitFor_giveUp(s, how) ==
  LET s1 == [s EXCEPT !.dWaiters = 1]
  IN [DaemonSettle(s1, how, NoFailure) EXCEPT !.dWaiters = s.dWaiters - 1]
\* EventBarrier.notify on the Daemon: listeners run synchronously inside the
\* call, so what they read from the status getter is the status at the call.
\* `after` is the status once the statement that follows the call has run;
\* retryTimer, timers and dDisp are the timer and the subscriptions at the call.
\* A RUNNING broadcast resolves the pending waiters of RUNNING.
DaemonNotify(s, ev, n, retryIn) ==
  LET e == [ev |-> ev, n |-> n, retryIn |-> retryIn,
            seen |-> s.dState, after |-> s.dState,
            retryTimer |-> s.retryTimer, timers |-> s.timers,
            dDisp |-> s.dDisp]
      s1 == [s EXCEPT !.log = Append(@, e), !.emitted = Append(@, e)]
  IN IF ev = EV_RUNNING /\ s1.dWaiters > 0
       THEN [DaemonSettle(s1, "resolve", NoFailure) EXCEPT !.dWaiters = 0]
       ELSE s1

\* (mutant) the assignment that follows the broadcast is forgotten
NotifyThenSet_NoSet(s, ev, n, retryIn, status) ==
  DaemonNotify(s, ev, n, retryIn)

\* this.notify(ev, ...) followed by this._state = status
NotifyThenSet(s, ev, n, retryIn, status) ==
  LET s1 == DaemonNotify(s, ev, n, retryIn)
      s2 == [s1 EXCEPT !.dState = status]
  IN [s2 EXCEPT !.log[Len(s2.log)].after = s2.dState,
                !.emitted[Len(s2.emitted)].after = s2.dState]

\* (mutant) the reference is dropped without cancelling the timer
clearTimeout_Forgotten(s) == s

clearTimeout(s) ==
  [s EXCEPT !.timers = RemoveFirst(@, s.retryTimer)]

Daemon_cleanUp(s) ==
  LET s1 == [s EXCEPT !.dDisp = 0]
  IN IF s1.retryTimer # 0
       THEN [clearTimeout(s1) EXCEPT !.retryTimer = 0]
       ELSE s1

\* default of the parameter nthAttempt of _start() and of _scheduleRetry()
StartDefaultAttempt == 1
RetryDefaultAttempt == 1

\* (mutant) the status is not set when the retry is scheduled
Daemon_scheduleRetry_NoStatus(s, nthAttempt) ==
  LET s1 == IF s.retryTimer # 0 THEN clearTimeout(s) ELSE s
      s2 == DaemonNotify(s1, EV_RETRY_SCHEDULED, nthAttempt, retryDelay)
  IN [s2 EXCEPT !.timers = Append(@, nthAttempt),
                !.retryTimer = nthAttempt]

\* (mutant) the timer is armed for the attempt after the one announced
Daemon_scheduleRetry_ArmsNext(s, nthAttempt) ==
  LET s1 == IF s.retryTimer # 0 THEN clearTimeout(s) ELSE s
      s2 == NotifyThenSet(s1, EV_RETRY_SCHEDULED, nthAttempt, retryDelay,
                          RETRY_SCHEDULED)
  IN [s2 EXCEPT !.timers = Append(@, nthAttempt + 1),
                !.retryTimer = nthAttempt + 1]

Daemon_scheduleRetry(s, nthAttempt) ==
  LET s1 == IF s.retryTimer # 0 THEN clearTimeout(s) ELSE s
      s2 == NotifyThenSet(s1, EV_RETRY_SCHEDULED, nthAttempt, retryDelay,
                          RETRY_SCHEDULED)
  IN [s2 EXCEPT !.timers = Append(@, nthAttempt),
                !.retryTimer = nthAttempt]

\* (mutant) the retry after a death goes on counting instead of restarting at 1
Daemon_onStopped_NoReset(s) ==
  LET s1 == Daemon_cleanUp(s)
  IN IF s1.dState # DEAD
       THEN Daemon_scheduleRetry(s1, RetryDefaultAttempt + 1)
       ELSE s1

\* The once-listener the Daemon puts on the resource's stopped transition.
Daemon_onStopped(s) ==
  LET s1 == Daemon_cleanUp(s)
  IN IF s1.dState # DEAD
       THEN Daemon_scheduleRetry(s1, RetryDefaultAttempt)
       ELSE s1

\* emit() calls the listeners that were registered when it began.
RECURSIVE RunStoppedListeners(_, _)
RunStoppedListeners(s, k) ==
  IF k = 0 THEN s ELSE RunStoppedListeners(Daemon_onStopped(s), k - 1)

\* ----------------------------------------------------------- Unreliable
startable(s) == s.uState \in startableStates
stoppable(s) == s.uState \in stoppableStates

\* The payload's fields besides oldState: err (StartFailureReason) and reason
\* (StopReason, the handle whose death event it was).
NoExtra == [err |-> "none", reason |-> 0]

\* EventBarrier.notify on the resource; the Daemon listens to `stopped`.
\* An entry records the payload, what the state getter and the Daemon's
\* status getter return inside the callback (seen, dSeen), the handle at that
\* moment, and the state once _setState has returned (after).
UnreliableNotify(s, newState, extra) ==
  LET s1 == [s EXCEPT !.uEmitted = Append(@, [to |-> newState,
                                               oldState |-> s.uState,
                                               err |-> extra.err,
                                               reason |-> extra.reason,
                                               seen |-> s.uState,
                                               dSeen |-> s.dState,
                                               uObj |-> s.uObj,
                                               uDisp |-> s.uDisp,
                                               after |-> s.uState])]
      s2 == SettleWaiters(s1, newState, "resolve", "none", 0)
  IN IF newState = U_STOPPED THEN RunStoppedListeners(s2, s2.dDisp) ELSE s2

Unreliable_setState(s, newState, extra) ==
  LET i == Len(s.uEmitted) + 1
      s1 == UnreliableNotify(s, newState, extra)
      s2 == [s1 EXCEPT !.uState = newState]
  IN [s2 EXCEPT !.uEmitted[i].after = s2.uState]

\* (mutant) the listeners on the handle are not disposed of
Unreliable_onDeath_KeepsListeners(s, reason) ==
  LET carried == s.uObj
      s1 == Unreliable_setState(s, U_STOPPED, [err |-> "none", reason |-> reason])
      s2 == [s1 EXCEPT !.uObj = 0, !.handled = @ \cup {reason}]
  IN AbortEach(s2, abortOnDeath, "death", carried)

\* (mutant) the handle is cleared before the death error is built
Unreliable_onDeath_ClearsFirst(s, reason) ==
  LET s1 == [s EXCEPT !.uObj = 0, !.handled = @ \cup {reason}]
      carried == s1.uObj
      s2 == Unreliable_setState(s1, U_STOPPED, [err |-> "none", reason |-> reason])
      s3 == [Effect(s2, "dispose", "", "none", 0) EXCEPT !.uDisp = {}]
  IN AbortEach(s3, abortOnDeath, "death", carried)

\* _onDeath(...reason): the death error carries the handle _uObj refers to
\* when the handler begins.
Unreliable_onDeath(s, reason) ==
  LET carried == s.uObj
      s1 == Unreliable_setState(s, U_STOPPED, [err |-> "none", reason |-> reason])
      s2 == [s1 EXCEPT !.uObj = 0, !.handled = @ \cup {reason}]
      s3 == [Effect(s2, "dispose", "", "none", 0) EXCEPT !.uDisp = {}]
  IN AbortEach(s3, abortOnDeath, "death", carried)

\* The listener that events.once() put on handle h for an abortOnDeath()
\* call: it removes itself and resolves the promise the call's death branch
\* awaits; the branch goes on in a later microtask.
onceListeners(s, h) ==
  [s EXCEPT !.jobs = [j \in 1..Len(s.jobs) |->
     IF s.jobs[j].h = h /\ s.jobs[j].listening
       THEN [s.jobs[j] EXCEPT !.stage = "deathQueued", !.listening = FALSE,
                              !.reason = h]
       ELSE s.jobs[j]]]

\* Handle h emits a death event: the listeners on it run in the order they
\* were attached, the resource's own (if attached) first.
EmitDeath(s, h) ==
  LET s1 == [Effect(s, "death", "", "none", h) EXCEPT !.live = @ \ {h}]
      s2 == IF h \in s1.uDisp THEN Unreliable_onDeath(s1, h) ELSE s1
  IN onceListeners(s2, h)

\* (mutant) the stop hook is called without the transition to stopping
Unreliable_stop_NoTransition(s, hook) ==
  IF ~stoppable(s) \/ s.uObj = 0 THEN [s EXCEPT !.thrown = "assert"]
  ELSE LET s1 == Effect(s, "stopHook", "", "none", s.uObj)
       IN IF hook = "emitDeath" THEN EmitDeath(s1, s1.uObj)
          ELSE IF hook = "throw" THEN [s1 EXCEPT !.thrown = "hook"]
          ELSE s1

\* (mutant) the stop hook is invoked before the transition to stopping
Unreliable_stop_HookFirst(s, hook) ==
  IF ~stoppable(s) \/ s.uObj = 0 THEN [s EXCEPT !.thrown = "assert"]
  ELSE LET s1 == Effect(s, "stopHook", "", "none", s.uObj)
           s2 == IF hook = "emitDeath" THEN EmitDeath(s1, s1.uObj) ELSE s1
       IN IF hook = "throw" THEN [s2 EXCEPT !.thrown = "hook"]
          ELSE Unreliable_setState(s2, U_STOPPING, NoExtra)

\* Unreliable.stop(): a failed assertion or an error of the stop hook is
\* thrown at the caller and leaves what was done before it.
Unreliable_stop(s, hook) ==
  IF ~stoppable(s) \/ s.uObj = 0 THEN [s EXCEPT !.thrown = "assert"]
  ELSE LET s1 == Unreliable_setState(s, U_STOPPING, NoExtra)
           s2 == Effect(s1, "stopHook", "", "none", s1.uObj)
       IN IF hook = "emitDeath" THEN EmitDeath(s2, s2.uObj)
          ELSE IF hook = "throw" THEN [s2 EXCEPT !.thrown = "hook"]
          ELSE s2

\* (mutant) the creation hook is invoked whatever the state
Unreliable_start_NoAssert(s, owner, nthAttempt) ==
  [Effect(Unreliable_setState(s, U_STARTING, NoExtra),
          "createHook", "", "none", 0) EXCEPT
     !.calls = Append(@, [owner |-> owner, n |-> nthAttempt,
                           stage |-> "creating", err |-> "none", h |-> 0])]

\* Unreliable.start() up to its first await: either _start() has thrown an
\* assertion (the catch of start() runs next), or the creation hook is in
\* flight.
Unreliable_start(s, owner, nthAttempt) ==
  IF ~startable(s) \/ s.uObj # 0
    THEN [s EXCEPT !.calls = Append(@, [owner |-> owner, n |-> nthAttempt,
                                         stage |-> "asserted",
                                         err |-> "assert", h |-> 0])]
    ELSE [Effect(Unreliable_setState(s, U_STARTING, NoExtra),
                 "createHook", "", "none", 0) EXCEPT
            !.calls = Append(@, [owner |-> owner, n |-> nthAttempt,
                                  stage |-> "creating", err |-> "none", h |-> 0])]

\* The catch block of Unreliable.start(), entered with the error err.
Unreliable_startCatch(s, err) ==
  LET s1 == AbortEach(s, abortOnStartFailure, err, 0)
      s2 == Unreliable_setState(s1, U_START_FAILED, [err |-> err, reason |-> 0])
  IN [s2 EXCEPT !.thrown = err]

\* FakeProcess._createAndCheck() up to its first await, run inside the call
\* of start() that appended the last call of s (s0 is the state before that
\* call): the hook throws having created nothing (creates = FALSE), or it
\* creates the object, which lives and may emit from then on, and sleeps.
Unreliable_createAndCheck(s0, s, creates) ==
  LET i == Len(s.calls)
      h == s.nHandles + 1
  IN IF /\ creates
        /\ i = Len(s0.calls) + 1
        /\ s.calls[i].stage = "creating"
        /\ s.nHandles < MaxHandles
       THEN [s EXCEPT !.calls[i].h = h, !.live = @ \cup {h}, !.nHandles = h]
       ELSE s

\* Unreliable._start() after the creation hook has returned handle h: the
\* error and death listeners are attached after the running transition.
Unreliable_startThen(s, h) ==
  LET s1 == [s EXCEPT !.uObj = h]
      s2 == Unreliable_setState(s1, U_RUNNING, NoExtra)
  IN [s2 EXCEPT !.uDisp = @ \cup {h}]

\* this.abortAll(err), over the events in the order of `events`
RECURSIVE AbortAllOf(_, _, _)
AbortAllOf(s, events, err) ==
  IF events = <<>> THEN s
  ELSE AbortAllOf(SettleWaiters(s, Head(events), "abort", err, 0),
                  Tail(events), err)

\* (mutant) an error of the handle is taken for its death
Unreliable_onError_AsDeath(s, h) ==
  Unreliable_onDeath(AbortAllOf(Effect(s, "abortAll", "", "error", h),
                                <<U_INIT, U_STARTING, U_START_FAILED,
                                  U_RUNNING, U_STOPPING, U_STOPPED>>,
                                "error"), h)

\* _onError(err): the listener of the `error` event of handle h
Unreliable_onError(s, h) ==
  AbortAllOf(Effect(s, "abortAll", "", "error", h),
             <<U_INIT, U_STARTING, U_START_FAILED, U_RUNNING, U_STOPPING,
               U_STOPPED>>, "error")

\* abortOnDeath(job) up to `await Promise.race(jobs)`: the handle is captured,
\* the job is started with the token, a once-listener is put on the handle.
Unreliable_abortOnDeath(s) ==
  IF s.uObj = 0 THEN [s EXCEPT !.thrown = "assert"]
  ELSE [s EXCEPT !.jobs = Append(@, [h |-> s.uObj, stage |-> "racing",
                                     listening |-> TRUE, aborted |-> FALSE,
                                     reason |-> 0])]

\* finally { ac.abort() }: the token is aborted, which removes the listeners
\* that events.once() installed with it.
abortOnDeath_finally(job) ==
  [job EXCEPT !.aborted = TRUE, !.listening = FALSE]

\* (mutant) the death error is built from the handle the resource holds now
deathError_CurrentHandle(s, job) ==
  [kind |-> "death", h |-> s.uObj, reason |-> job.reason]

\* new deathErrorClass(uObj, reason), with the handle the call captured
deathError(s, job) ==
  [kind |-> "death", h |-> job.h, reason |-> job.reason]

\* The race of the call jobs[j] is settled, by the job (outcome "ok" or
\* "err") or by the death branch ("death"), and the call returns.
abortOnDeath_return(s, j, outcome) ==
  LET job == s.jobs[j]
      err == IF outcome = "death" THEN deathError(s, job)
             ELSE [kind |-> outcome, h |-> 0, reason |-> 0]
  IN [s EXCEPT !.jobs = RemoveAt(@, j),
               !.returned = Append(@, [job |-> abortOnDeath_finally(job),
                                       deathFired |-> job.stage = "deathQueued",
                                       outcome |-> outcome,
                                       err |-> err]),
               !.thrown = IF outcome = "ok" THEN "none" ELSE err.kind]

\* (mutant) the call waits whatever the state
Unreliable_waitForState_AlwaysWaits(s, dstState) ==
  [s EXCEPT !.waiters[dstState] = @ + 1,
            !.waited = [dst |-> dstState, how |-> "waiting"]]

\* waitForState(dstState): return at once in the state dstState, otherwise
\* super.waitFor(dstState, timeout, signal) registers a waiter of the event.
Unreliable_waitForState(s, dstState) ==
  IF s.uState = dstState
    THEN [s EXCEPT !.waited = [dst |-> dstState, how |-> "returned"]]
    ELSE [s EXCEPT !.waiters[dstState] = @ + 1,
                   !.waited = [dst |-> dstState, how |-> "waiting"]]

\* The timeout of a waiter of the event ev expires, or its signal is aborted:
\* the waiter is rejected and leaves the barrier.
waitFor_giveUp(s, ev, how) ==
  [s EXCEPT !.waiters[ev] = @ - 1,
            !.woken = Append(@, [ev |-> ev, n |-> 1, how |-> how,
                                 err |-> how, h |-> 0, at |-> 0])]

\* ------------------------------------------------------- Daemon (part 2)
\* (mutant) the attempt begins without cleaning up
Daemon_start_NoCleanUp(s, nthAttempt) ==
  IF s.dState = DEAD THEN s
  ELSE Unreliable_start(NotifyThenSet(s, EV_STARTING, nthAttempt, 0, STARTING),
                        "daemon", nthAttempt)

\* Daemon._start() up to `await it.start()`.
Daemon_start(s, nthAttempt) ==
  IF s.dState = DEAD THEN s
  ELSE LET s1 == IF s.retryTimer # 0
                   THEN [clearTimeout(s) EXCEPT !.retryTimer = 0]
                   ELSE s
           s2 == Daemon_cleanUp(s1)
           s3 == NotifyThenSet(s2, EV_STARTING, nthAttempt, 0, STARTING)
       IN Unreliable_start(s3, "daemon", nthAttempt)

\* Daemon._start() after it.start() has resolved. RUNNING has no payload: its
\* entry records the attempt that succeeded.
Daemon_startThen(s, nthAttempt) ==
  LET s1 == NotifyThenSet([s EXCEPT !.log = <<>>], EV_RUNNING, nthAttempt, 0,
                          RUNNING)
  IN [s1 EXCEPT !.dDisp = @ + 1]

\* (mutant) one attempt too many
GiveUp_OffByOne(nthAttempt) == nthAttempt > maxAttempt

GiveUp(nthAttempt) == nthAttempt >= maxAttempt

\* (mutant) the retry repeats the attempt number
NextAttempt_Same(nthAttempt) == nthAttempt

NextAttempt(nthAttempt) == nthAttempt + 1

\* (mutant) the best-effort stop is not guarded by try/catch
Daemon_startCatch_NoTry(s, nthAttempt, hook) ==
  LET s1 == IF stoppable(s) THEN Unreliable_stop(s, hook) ELSE s
  IN IF s1.thrown # "none" THEN s1
     ELSE IF GiveUp(nthAttempt)
       THEN Daemon_abort(
              NotifyThenSet(s1, EV_START_FAILED, nthAttempt, -1, DEAD),
              StartFailure(nthAttempt, -1))
       ELSE IF s1.dState # DEAD
         THEN Daemon_scheduleRetry(
                DaemonNotify(s1, EV_START_FAILED, nthAttempt, retryDelay),
                NextAttempt(nthAttempt))
         ELSE s1

\* (mutant) the waiters of RUNNING are aborted after every failed attempt
Daemon_startCatch_AbortsAlways(s, nthAttempt, hook) ==
  LET s1 == IF stoppable(s) THEN Swallow(Unreliable_stop(s, hook)) ELSE s
  IN IF GiveUp(nthAttempt)
       THEN Daemon_abort(
              NotifyThenSet(s1, EV_START_FAILED, nthAttempt, -1, DEAD),
              StartFailure(nthAttempt, -1))
       ELSE IF s1.dState # DEAD
         THEN Daemon_abort(
                Daemon_scheduleRetry(
                  DaemonNotify(s1, EV_START_FAILED, nthAttempt, retryDelay),
                  NextAttempt(nthAttempt)),
                StartFailure(nthAttempt, retryDelay))
         ELSE s1

\* The catch block of Daemon._start().
Daemon_startCatch(s, nthAttempt, hook) ==
  LET s1 == IF stoppable(s) THEN Swallow(Unreliable_stop(s, hook)) ELSE s
  IN IF GiveUp(nthAttempt)
       THEN Daemon_abort(
              NotifyThenSet(s1, EV_START_FAILED, nthAttempt, -1, DEAD),
              StartFailure(nthAttempt, -1))
       ELSE IF s1.dState # DEAD
         THEN Daemon_scheduleRetry(
                DaemonNotify(s1, EV_START_FAILED, nthAttempt, retryDelay),
                NextAttempt(nthAttempt))
         ELSE s1

\* (mutant) the resource's stop() is not guarded by try/catch
Daemon_stop_NoTry(s, hook) ==
  LET s1 == Daemon_cleanUp([s EXCEPT !.dState = DEAD])
      s2 == IF s1.retryTimer # 0
              THEN [clearTimeout(s1) EXCEPT !.retryTimer = 0]
              ELSE s1
  IN Unreliable_stop(s2, hook)

Daemon_stop(s, hook) ==
  LET s1 == Daemon_cleanUp([s EXCEPT !.dState = DEAD])
      s2 == IF s1.retryTimer # 0
              THEN [clearTimeout(s1) EXCEPT !.retryTimer = 0]
              ELSE s1
  IN Swallow(Unreliable_stop(s2, hook))

\* ---------------------------------------------------------------- Init
Init ==
  /\ maxAttempt \in 1..MaxAttemptBound
  /\ retryDelay \in RetryDelays
  /\ uState = U_INIT
  /\ uObj = 0
  /\ uDisp = {}
  /\ live = {}
  /\ nEvents = 0
  /\ handled = {}
  /\ nHandles = 0
  /\ calls = <<>>
  /\ dState = INIT
  /\ retryTimer = 0
  /\ timers = <<>>
  /\ dDisp = 0
  /\ log = <<>>
  /\ emitted = <<>>
  /\ uEmitted = <<>>
  /\ trace = <<>>
  /\ thrown = "none"
  /\ jobs = <<>>
  /\ returned = <<>>
  /\ waiters = [st \in AllStates |-> 0]
  /\ woken = <<>>
  /\ waited = NotWaited
  /\ dWaiters = 0
  /\ dWoken = <<>>
  /\ step = [op |-> "new", turn |-> 0]
  /\ stopFrom = "none"
  /\ startFoundTimer = FALSE
  /\ nStart = 0
  /\ nStop = 0
  /\ nUser = 0
  /\ nWait = 0
  /\ nDWait = 0

\* -------------------------------------------------------------- actions
\* The step was a run of op.
Ran(op) == [op |-> op, turn |-> IF step.op = op THEN 1 - step.turn ELSE 0]

CallBudget == nStart + nStop + nUser + nWait + nDWait < MaxExternalCalls

\* A continuation that runs as a microtask is pending.
MicrotaskPending ==
  \/ \E i \in 1..Len(calls) : calls[i].stage \in {"asserted", "rejected", "resolved"}
  \/ \E j \in 1..Len(jobs) : jobs[j].stage = "deathQueued"

\* external call daemon.start()
DaemonStart ==
  /\ CallBudget
  /\ \E creates \in BOOLEAN :
       Commit(Unreliable_createAndCheck(Cur,
                Daemon_start([Cur EXCEPT !.dState = INIT, !.log = <<>>],
                             StartDefaultAttempt),
                creates))
  /\ nStart' = nStart + 1
  /\ stopFrom' = "none"
  /\ startFoundTimer' = (retryTimer # 0)
  /\ step' = Ran("DaemonStart")
  /\ UNCHANGED <<conf, world, nStop, nUser, nWait, nDWait>>

\* external call daemon.stop()
DaemonStop ==
  /\ CallBudget
  /\ \E hook \in StopHooks : Commit(Daemon_stop(Cur, hook))
  /\ nStop' = nStop + 1
  /\ stopFrom' = IF stopFrom = "none" THEN dState ELSE stopFrom
  /\ step' = Ran("DaemonStop")
  /\ UNCHANGED <<conf, world, nStart, nUser, nWait, nDWait, startFoundTimer>>

\* the retry timer's callback
TimerFire ==
  /\ ~MicrotaskPending
  /\ \E i \in 1..Len(timers), creates \in BOOLEAN :
       Commit(Unreliable_createAndCheck(Cur,
                Daemon_start([Cur EXCEPT !.timers = RemoveAt(@, i),
                                         !.retryTimer = 0],
                             timers[i]),
                creates))
  /\ step' = Ran("TimerFire")
  /\ UNCHANGED <<conf, world, hist>>

\* The continuation of a settled call either returns to the Daemon's
\* _start() or to the direct caller, who is not modelled further.
\* A rejection (s.thrown) is delivered to the one or the other.
Settle(s, i, stage) ==
  IF s.calls[i].owner = "daemon"
    THEN [s EXCEPT !.calls[i].stage = stage, !.calls[i].err = s.thrown,
                   !.thrown = "none"]
    ELSE [s EXCEPT !.calls = RemoveAt(@, i)]

\* start() catches the assertion thrown by _start()
StartAssertCaught ==
  /\ \E i \in 1..Len(calls) :
       /\ calls[i].stage = "asserted"
       /\ Commit(Settle(Unreliable_startCatch(Cur, calls[i].err), i, "rejected"))
  /\ step' = Ran("StartAssertCaught")
  /\ UNCHANGED <<conf, world, hist>>

\* the creation hook fails, having created nothing: start() catches and
\* re-throws
CreateFail ==
  /\ \E i \in 1..Len(calls) :
       /\ calls[i].stage = "creating"
       /\ calls[i].h = 0
       /\ Commit(Settle(Unreliable_startCatch(Cur, "create"), i, "rejected"))
  /\ step' = Ran("CreateFail")
  /\ UNCHANGED <<conf, world, hist>>

\* the creation hook returns the handle it created
CreateOk ==
  /\ \E i \in 1..Len(calls) :
       /\ calls[i].stage = "creating"
       /\ calls[i].h # 0
       /\ Commit(Settle(Unreliable_startThen(Cur, calls[i].h), i, "resolved"))
  /\ step' = Ran("CreateOk")
  /\ UNCHANGED <<conf, world, hist>>

\* Daemon._start() resumes after it.start() resolved
DaemonStartResolved ==
  /\ \E i \in 1..Len(calls) :
       /\ calls[i].stage = "resolved"
       /\ Commit(Daemon_startThen([Cur EXCEPT !.calls = RemoveAt(@, i)],
                                  calls[i].n))
  /\ step' = Ran("DaemonStartResolved")
  /\ UNCHANGED <<conf, world, hist>>

\* Daemon._start() resumes in its catch block after it.start() rejected
DaemonStartRejected ==
  /\ \E i \in 1..Len(calls), hook \in StopHooks :
       /\ calls[i].stage = "rejected"
       /\ Commit(Daemon_startCatch([Cur EXCEPT !.calls = RemoveAt(@, i)],
                                   calls[i].n, hook))
  /\ step' = Ran("DaemonStartRejected")
  /\ UNCHANGED <<conf, world, hist>>

\* an underlying object emits a death event, its first or a further one
HandleDeath ==
  /\ nEvents < MaxHandleEvents
  /\ \E h \in 1..nHandles : Commit(EmitDeath(Cur, h))
  /\ nEvents' = nEvents + 1
  /\ step' = Ran("HandleDeath")
  /\ UNCHANGED <<conf, hist>>

\* an underlying object the resource listens to emits `error`
HandleError ==
  /\ nEvents < MaxHandleEvents
  /\ \E h \in uDisp : Commit(Unreliable_onError(Cur, h))
  /\ nEvents' = nEvents + 1
  /\ step' = Ran("HandleError")
  /\ UNCHANGED <<conf, hist>>

\* direct call unreliable.start()
UserStart ==
  /\ CallBudget
  /\ \E creates \in BOOLEAN :
       Commit(Unreliable_createAndCheck(Cur, Unreliable_start(Cur, "user", 0),
                                        creates))
  /\ nUser' = nUser + 1
  /\ step' = Ran("UserStart")
  /\ UNCHANGED <<conf, world, nStart, nStop, nWait, nDWait, stopFrom, startFoundTimer>>

\* direct call unreliable.stop()
UserStop ==
  /\ CallBudget
  /\ \E hook \in StopHooks : Commit(Unreliable_stop(Cur, hook))
  /\ nUser' = nUser + 1
  /\ step' = Ran("UserStop")
  /\ UNCHANGED <<conf, world, nStart, nStop, nWait, nDWait, stopFrom, startFoundTimer>>

\* direct call unreliable.abortOnDeath(job)
UserAbortOnDeath ==
  /\ CallBudget
  /\ Commit(Unreliable_abortOnDeath(Cur))
  /\ nUser' = nUser + 1
  /\ step' = Ran("UserAbortOnDeath")
  /\ UNCHANGED <<conf, world, nStart, nStop, nWait, nDWait, stopFrom, startFoundTimer>>

\* the job of an abortOnDeath() call settles, with a result or an error,
\* before its death branch has thrown
JobSettles ==
  /\ \E j \in 1..Len(jobs), outcome \in {"ok", "err"} :
       Commit(abortOnDeath_return(Cur, j, outcome))
  /\ step' = Ran("JobSettles")
  /\ UNCHANGED <<conf, world, hist>>

\* the death branch of an abortOnDeath() call resumes and throws
DeathBranchThrows ==
  /\ \E j \in 1..Len(jobs) :
       /\ jobs[j].stage = "deathQueued"
       /\ Commit(abortOnDeath_return(Cur, j, "death"))
  /\ step' = Ran("DeathBranchThrows")
  /\ UNCHANGED <<conf, world, hist>>

\* direct call unreliable.waitForState(dstState, timeout, signal)
UserWaitForState ==
  /\ CallBudget
  /\ \E dstState \in WaitStates : Commit(Unreliable_waitForState(Cur, dstState))
  /\ nWait' = nWait + 1
  /\ step' = Ran("UserWaitForState")
  /\ UNCHANGED <<conf, world, nStart, nStop, nUser, nDWait, stopFrom, startFoundTimer>>

\* direct call daemon.waitFor(DaemonEvents.RUNNING, timeout, signal)
DaemonWaitForRunning ==
  /\ CallBudget
  /\ Commit(Daemon_waitFor(Cur))
  /\ nDWait' = nDWait + 1
  /\ step' = Ran("DaemonWaitForRunning")
  /\ UNCHANGED <<conf, world, nStart, nStop, nUser, nWait, stopFrom, startFoundTimer>>

\* the timeout of a Daemon waiter expires or its signal is aborted
DaemonWaiterGivesUp ==
  /\ dWaiters > 0
  /\ \E how \in {"timeout", "cancelled"} : Commit(Daemon_waitFor_giveUp(Cur, how))
  /\ step' = Ran("DaemonWaiterGivesUp")
  /\ UNCHANGED <<conf, world, hist>>

\* a waiter's timeout expires or its signal is aborted
WaiterGivesUp ==
  /\ \E ev \in AllStates, how \in {"timeout", "cancelled"} :
       /\ waiters[ev] > 0
       /\ Commit(waitFor_giveUp(Cur, ev, how))
  /\ step' = Ran("WaiterGivesUp")
  /\ UNCHANGED <<conf, world, hist>>

Next ==
  \/ DaemonStart
  \/ DaemonStop
  \/ TimerFire
  \/ StartAssertCaught
  \/ CreateFail
  \/ CreateOk
  \/ DaemonStartResolved
  \/ DaemonStartRejected
  \/ HandleDeath
  \/ HandleError
  \/ UserStart
  \/ UserStop
  \/ UserAbortOnDeath
  \/ JobSettles
  \/ DeathBranchThrows
  \/ UserWaitForState
  \/ WaiterGivesUp
  \/ DaemonWaitForRunning
  \/ DaemonWaiterGivesUp

Spec == Init /\ [][Next]_vars

\* What the event loop runs by itself: the callback of an armed timer, and
\* the code after an await once the awaited promise has settled.
EventLoop ==
  \/ TimerFire
  \/ StartAssertCaught
  \/ DaemonStartResolved
  \/ DaemonStartRejected
  \/ DeathBranchThrows

EventLoopSteps == {"TimerFire", "StartAssertCaught", "DaemonStartResolved",
                   "DaemonStartRejected", "DeathBranchThrows"}

\* The event loop has something to run: a continuation, or an armed timer
\* (ENABLED <<EventLoop>>_vars as a state predicate).
EventLoopPending == MicrotaskPending \/ timers # <<>>

EventLoopPendingIsEnabled == EventLoopPending <=> ENABLED <<EventLoop>>_vars

\* The event loop runs one of them. In a behaviour of Spec this is a step of
\* EventLoop, and it is enabled exactly when EventLoop is; every step changes
\* `step`.
EventLoopStep ==
  /\ EventLoopPending
  /\ \E op \in EventLoopSteps : step' = Ran(op)

\* The event loop does not stop while it has something to run.
Fairness == WF_step(EventLoopStep)

LiveSpec == Spec /\ Fairness

\* ======================================================================
\* Properties
\* ======================================================================
Payload(e) == [ev |-> e.ev, n |-> e.n, retryIn |-> e.retryIn]
Payloads(seq) == [i \in 1..Len(seq) |-> Payload(seq[i])]
IsPrefix(a, b) == Len(a) <= Len(b) /\ a = SubSeq(b, 1, Len(a))
Last(seq) == seq[Len(seq)]

\* The broadcasts of N attempts that all fail: for attempt a, STARTING a,
\* START_FAILED a, and (but for the last) RETRY_SCHEDULED a + 1.
AllFailLog(N, delay) ==
  [i \in 1..(3 * N - 1) |->
     LET a == ((i - 1) \div 3) + 1
         r == (i - 1) % 3
     IN IF r = 0 THEN [ev |-> EV_STARTING, n |-> a, retryIn |-> 0]
        ELSE IF r = 1
          THEN [ev |-> EV_START_FAILED, n |-> a,
                retryIn |-> IF a < N THEN delay ELSE -1]
          ELSE [ev |-> EV_RETRY_SCHEDULED, n |-> a + 1, retryIn |-> delay]]

\* The status the Daemon documents for the broadcast it made last.
StatusAfter(e) ==
  IF e.ev = EV_STARTING THEN STARTING
  ELSE IF e.ev = EV_RUNNING THEN RUNNING
  ELSE IF e.ev = EV_RETRY_SCHEDULED THEN RETRY_SCHEDULED
  ELSE DEAD

\* seq follows the all-fail schedule: a prefix of it, the status is the one
\* of the last broadcast, dead is reached exactly with the last broadcast,
\* and before that an attempt or a retry timer is pending.
FollowsAllFail(seq) ==
  /\ IsPrefix(Payloads(seq), AllFailLog(maxAttempt, retryDelay))
  /\ seq # <<>> => dState = StatusAfter(Last(seq))
  /\ (dState = DEAD) <=> (Len(seq) = 3 * maxAttempt - 1)
  /\ dState # DEAD => (calls # <<>> \/ timers # <<>>)

\* One Daemon.start(), nothing else called, no creation has succeeded.
OnlyFailuresSoFar ==
  nStart = 1 /\ nStop = 0 /\ nUser = 0 /\ nHandles = 0

\* C1: bounded retries. After one Daemon.start() with a creation hook that
\* fails every time, the broadcasts are STARTING 1, START_FAILED 1 (retryIn =
\* retryDelay), RETRY_SCHEDULED 2, STARTING 2, ..., START_FAILED maxAttempt
\* (retryIn = -1), in this order and nothing else; the status is
\* retry-scheduled after each of the first maxAttempt - 1 failures and dead
\* after the last, and until then the next attempt is pending.
C1_BoundedRetries == OnlyFailuresSoFar => FollowsAllFail(log)

C1_Witness ==
  /\ OnlyFailuresSoFar
  /\ maxAttempt = MaxAttemptBound
  /\ maxAttempt >= 2
  /\ dState = DEAD
  /\ Len(log) = 3 * maxAttempt - 1
  /\ Last(log).retryIn = -1

\* C3: dead is terminal. Once the status is dead, it stays dead in every
\* step that is not an external Daemon.start() call.
C3_DeadIsTerminal ==
  [][(dState = DEAD /\ nStart' = nStart) => dState' = DEAD]_vars

NumCreating == Cardinality({i \in 1..Len(calls) : calls[i].stage = "creating"})

\* C9: single instance. At most one underlying object is alive and at most
\* one creation hook is in flight.
C9_SingleInstance == Cardinality(live) <= 1 /\ NumCreating <= 1

Emitted(ev) == {i \in 1..Len(emitted) : emitted[i].ev = ev}
UEmitted(st) == {i \in 1..Len(uEmitted) : uEmitted[i].to = st}

\* C2: stop is terminal. After Daemon.stop() was called in status running or
\* retry-scheduled, and until the next external Daemon.start(), the status
\* is dead, no retry timer is armed and no STARTING or RETRY_SCHEDULED
\* broadcast is made.
C2_StopIsTerminal ==
  stopFrom \in {RUNNING, RETRY_SCHEDULED} =>
    /\ dState = DEAD
    /\ timers = <<>>
    /\ Emitted(EV_STARTING) = {}
    /\ Emitted(EV_RETRY_SCHEDULED) = {}

\* C4: attempt counter reset. When the resource broadcasts stopped while the
\* Daemon status is running, the Daemon broadcasts RETRY_SCHEDULED with
\* nthAttempt = 1 and the configured delay in the same step, and the status
\* is retry-scheduled.
\* (When the death was caused by the best-effort stop of a failure handler,
\* that handler goes on in the same step; otherwise the step ends in status
\* retry-scheduled with the timer of attempt 1 armed.)
C4_RetryAtAttemptOne ==
  (\E i \in UEmitted(U_STOPPED) : uEmitted[i].dSeen = RUNNING) =>
    /\ emitted # <<>>
    /\ Payload(emitted[1]) =
         [ev |-> EV_RETRY_SCHEDULED, n |-> 1, retryIn |-> retryDelay]
    /\ emitted[1].seen = RUNNING
    /\ emitted[1].after = RETRY_SCHEDULED
    /\ Emitted(EV_START_FAILED) = {} =>
         /\ dState = RETRY_SCHEDULED
         /\ timers = <<1>>
         /\ \A i \in 1..Len(emitted) : Payload(emitted[i]) = Payload(emitted[1])

\* the death follows a run that was reached at the second attempt
C4_Witness ==
  /\ \E i \in UEmitted(U_STOPPED) : uEmitted[i].dSeen = RUNNING
  /\ Len(log) = 2
  /\ log[1].ev = EV_RUNNING
  /\ log[1].n = 2
  /\ log[2].ev = EV_RETRY_SCHEDULED
  /\ log[2].n = 1
  /\ dState = RETRY_SCHEDULED

\* A successful run, then the death of the resource seen by the Daemon, and
\* no creation has succeeded since.
RunThenOnlyFailures ==
  /\ nStart = 1 /\ nStop = 0 /\ nUser = 0
  /\ nHandles = 1 /\ live = {}
  /\ Len(log) >= 2
  /\ log[1].ev = EV_RUNNING
  /\ log[2].ev = EV_RETRY_SCHEDULED

\* C5: scenario D. After a successful run and the death of the resource, if
\* every later creation fails, the broadcasts after RETRY_SCHEDULED 1 are
\* those of maxAttempt failing attempts numbered from 1: the status is
\* retry-scheduled after each of the first maxAttempt - 1 START_FAILED and
\* dead after the last.
C5_ScenarioD ==
  RunThenOnlyFailures =>
    /\ log[2].n = 1
    /\ IF Len(log) = 2 THEN dState = RETRY_SCHEDULED
       ELSE FollowsAllFail(SubSeq(log, 3, Len(log)))

C5_Witness ==
  /\ RunThenOnlyFailures
  /\ maxAttempt = MaxAttemptBound
  /\ dState = DEAD
  /\ Len(log) = 2 + 3 * maxAttempt - 1

\* C6: tie-break. A START_FAILED broadcast for an attempt below maxAttempt
\* carries retryIn = retryDelay and is followed at once, in the same step, by
\* RETRY_SCHEDULED for the next attempt with the same delay; nothing else
\* happens in that step after it and the status is then retry-scheduled.
C6_TieBreak ==
  \A i \in Emitted(EV_START_FAILED) :
    emitted[i].n < maxAttempt =>
      /\ emitted[i].retryIn = retryDelay
      /\ i + 1 = Len(emitted)
      /\ Payload(emitted[i + 1]) = [ev |-> EV_RETRY_SCHEDULED,
                                    n |-> emitted[i].n + 1,
                                    retryIn |-> retryDelay]
      /\ dState = RETRY_SCHEDULED

C6_Witness ==
  /\ Len(emitted) = 2
  /\ emitted[1].ev = EV_START_FAILED
  /\ emitted[1].n = 1
  /\ emitted[2].ev = EV_RETRY_SCHEDULED
  /\ emitted[2].n = 2
  /\ dState = RETRY_SCHEDULED

\* The broadcasts that come with a change of status.
Transitions == {i \in 1..Len(emitted) :
                  emitted[i].ev # EV_START_FAILED \/ emitted[i].retryIn = -1}

\* C7 as stated: in the callback of every transition broadcast the getter
\* returns the new state.
C7_SeenIsNew ==
  /\ \A i \in 1..Len(uEmitted) : uEmitted[i].seen = uEmitted[i].to
  /\ \A i \in Transitions : emitted[i].seen = StatusAfter(emitted[i])

\* C7 (amended): state/event pairing. The state is assigned right after the
\* broadcast call: inside the callback the getter still returns the previous
\* state (for the resource the payload's oldState; for STARTING a status other
\* than starting), and it returns the new state as soon as the broadcast has
\* returned and the next statement has run.
C7_PairingAfterBroadcast ==
  /\ \A i \in 1..Len(uEmitted) :
       /\ uEmitted[i].seen = uEmitted[i].oldState
       /\ uEmitted[i].after = uEmitted[i].to
  /\ \A i \in Transitions : emitted[i].after = StatusAfter(emitted[i])
  /\ \A i \in Emitted(EV_STARTING) : emitted[i].seen # STARTING

C7_Witness ==
  /\ Len(emitted) = 1
  /\ emitted[1].ev = EV_STARTING
  /\ emitted[1].seen = RETRY_SCHEDULED
  /\ emitted[1].after = STARTING
  /\ Len(uEmitted) = 1
  /\ uEmitted[1].to = U_STARTING
  /\ uEmitted[1].seen = U_START_FAILED
  /\ uEmitted[1].after = U_STARTING

\* C8: no double timers. At most one retry timer is armed and it is the one
\* Daemon._retryTimer refers to; when an attempt begins (STARTING), and so
\* after Daemon.start() found a timer pending, no timer is left armed.
C8_NoDoubleTimers ==
  /\ Len(timers) <= 1
  /\ timers = IF retryTimer = 0 THEN <<>> ELSE <<retryTimer>>
  /\ Emitted(EV_STARTING) # {} => timers = <<>>

\* Daemon.start() was just called with a retry timer pending
C8_Witness ==
  /\ startFoundTimer
  /\ Len(emitted) = 1
  /\ emitted[1].ev = EV_STARTING
  /\ emitted[1].seen = INIT
  /\ emitted[1].n = 1
  /\ timers = <<>>

AttemptMarks == {i \in 1..Len(log) : log[i].ev \in {EV_STARTING, EV_RUNNING}}

\* C11 as stated (I4): between an external Daemon.start() and the next dead
\* status the attempt numbers of successive STARTING broadcasts never
\* decrease.
C11_AttemptsNeverDecrease ==
  \A i, j \in AttemptMarks : i < j => log[i].n <= log[j].n

LastOf(S) == CHOOSE i \in S : \A j \in S : j <= i

\* Where the number of a scheduled retry comes from: the listener on the
\* stopped transition schedules attempt 1, a failure handler the attempt after
\* the one that failed; the timer armed is the one of the last RETRY_SCHEDULED.
C11_RetryNumbering ==
  /\ \A i \in Emitted(EV_RETRY_SCHEDULED) :
       \/ emitted[i].n = 1 /\ UEmitted(U_STOPPED) # {}
       \/ /\ i > 1
          /\ emitted[i - 1].ev = EV_START_FAILED
          /\ emitted[i].n = emitted[i - 1].n + 1
  /\ Emitted(EV_RETRY_SCHEDULED) # {} =>
       /\ retryTimer = emitted[LastOf(Emitted(EV_RETRY_SCHEDULED))].n
       /\ timers = <<retryTimer>>
  /\ \A i \in 1..Len(emitted) : emitted[i].n \in 1..maxAttempt
  /\ (nStart = 1 /\ nStop = 0 /\ nUser = 0) =>
       \A i, j \in AttemptMarks :
         (i < j /\ log[i].ev = EV_STARTING) => log[i].n <= log[j].n

\* C11 (amended): the attempt number of a STARTING broadcast is 1 when it
\* results from an external Daemon.start() call or from the retry scheduled
\* after the death of a running resource, and otherwise one more than the
\* number of the START_FAILED broadcast that scheduled the retry. So the
\* numbers never exceed maxAttempt, grow by one from failure to failure, and
\* return to 1 on a fresh external start() and also after each successful
\* run that ended by a death.
C11_AttemptNumbering ==
  /\ []C11_RetryNumbering
  /\ [][\A i \in 1..Len(emitted') :
          emitted'[i].ev = EV_STARTING =>
            IF nStart' # nStart THEN emitted'[i].n = 1
            ELSE emitted'[i].n = retryTimer]_vars

\* a run reached at the second attempt has died and attempt 1 begins again
C11_Witness ==
  /\ nStart = 1 /\ nStop = 0 /\ nUser = 0
  /\ Len(log) = 3
  /\ log[1].ev = EV_RUNNING /\ log[1].n = 2
  /\ log[2].ev = EV_RETRY_SCHEDULED /\ log[2].n = 1
  /\ log[3].ev = EV_STARTING /\ log[3].n = 1
  /\ Len(emitted) = 1
  /\ dState = STARTING

\* Daemon._start() resumes after `await it.start()` for the call calls[i].
Resumes(i, stage) ==
  /\ calls[i].owner = "daemon"
  /\ calls[i].stage = stage
  /\ calls' = RemoveAt(calls, i)

\* The START_FAILED broadcast of the attempt n is among those of the step.
FailureBroadcast(n) ==
  \E k \in 1..Len(emitted') :
    /\ emitted'[k].ev = EV_START_FAILED
    /\ emitted'[k].n = n
    /\ emitted'[k].retryIn = IF n >= maxAttempt THEN -1 ELSE retryDelay

\* No error leaves Daemon.start() or the attempt it drives: not from the call
\* itself, not from the timer's callback, not from the code after the await.
NeverThrows ==
  /\ nStart' # nStart => thrown' = "none" /\ dState' = STARTING
  /\ (nStart' = nStart /\ nStop' = nStop /\ Len(timers') < Len(timers)) =>
       thrown' = "none"
  /\ \A i \in 1..Len(calls) :
       (Resumes(i, "resolved") \/ Resumes(i, "rejected")) => thrown' = "none"

Swallowed(err) == \E k \in 1..Len(trace) : trace[k].k = "swallow" /\ trace[k].err = err
Invoked(hook) == \E k \in 1..Len(trace) : trace[k].k = hook

\* C13: Daemon.stop() returns without throwing in every status and every
\* resource state. When the resource is not stoppable or has no handle (a
\* failed assertion), or its stop hook throws, the error is swallowed, and the
\* Daemon ends dead, without subscription and without retry timer.
C13_StopNeverThrows ==
  [][nStop' # nStop =>
       /\ thrown' = "none"
       /\ dState' = DEAD
       /\ dDisp' = 0
       /\ timers' = <<>>
       /\ retryTimer' = 0
       /\ (uState \notin stoppableStates \/ uObj = 0) =>
            /\ Swallowed("assert")'
            /\ ~Invoked("stopHook")'
            /\ uState' = uState
       /\ (uState \in stoppableStates /\ uObj # 0) =>
            /\ Invoked("stopHook")'
            /\ ~Swallowed("assert")']_vars

\* Daemon.stop() while a retry was scheduled: the resource is not stoppable;
\* and Daemon.stop() on a running resource whose stop hook throws
C13_Witness ==
  \/ /\ stopFrom = RETRY_SCHEDULED
     /\ nStop = 1
     /\ Swallowed("assert")
     /\ dState = DEAD
     /\ uState = U_START_FAILED
  \/ /\ stopFrom = RUNNING
     /\ nStop = 1
     /\ Swallowed("hook")
     /\ dState = DEAD
     /\ uState = U_STOPPING

\* A call of Unreliable.start() was made in the step (by the Daemon or
\* directly), and the call calls[i] was rejected in the step.
StartCalled == Len(calls') = Len(calls) + 1
\* A direct call that is neither start() nor an abortOnDeath() that went on.
StopCalled == nUser' # nUser /\ ~StartCalled /\ Len(jobs') = Len(jobs)
Settles(i) ==
  IF calls[i].owner = "daemon"
    THEN Len(calls') = Len(calls) /\ calls'[i] # calls[i]
    ELSE calls' = RemoveAt(calls, i)
RejectedWith(i, err) ==
  IF calls[i].owner = "daemon"
    THEN calls'[i].stage = "rejected" /\ calls'[i].err = err
    ELSE thrown' = err

\* C14 (I2): precondition faults. Unreliable.start() in a state that is not
\* startable, or with a handle, fails with an assertion fault and the creation
\* hook is not invoked; Unreliable.stop() in a state that is not stoppable, or
\* without a handle, throws an assertion fault and the stop hook is not
\* invoked.
C14_PreconditionFaults ==
  [][/\ (StartCalled /\ (uState \notin startableStates \/ uObj # 0)) =>
          /\ Last(calls').stage = "asserted"
          /\ Last(calls').err = "assert"
          /\ ~Invoked("createHook")'
          /\ uEmitted' = <<>>
     /\ (StartCalled /\ uState \in startableStates /\ uObj = 0) =>
          /\ Last(calls').stage = "creating"
          /\ Invoked("createHook")'
     /\ \A i \in 1..Len(calls) :
          (calls[i].stage = "asserted" /\ Settles(i)) => RejectedWith(i, "assert")
     /\ (StopCalled /\ (uState \notin stoppableStates \/ uObj = 0)) =>
          /\ thrown' = "assert"
          /\ ~Invoked("stopHook")'
          /\ uEmitted' = <<>>
          /\ uState' = uState
     /\ (StopCalled /\ uState \in stoppableStates /\ uObj # 0) =>
          /\ thrown' # "assert"
          /\ Invoked("stopHook")']_vars

\* a direct start() on a running resource has been rejected with the
\* assertion fault
C14_Witness ==
  /\ thrown = "assert"
  /\ nUser = 2
  /\ nStart = 0 /\ nStop = 0
  /\ calls = <<>>
  /\ uObj # 0
  /\ ~Invoked("createHook")
  /\ Len(uEmitted) = 1
  /\ uEmitted[1].err = "assert"

\* The edges of the resource state machine.
Edges ==
  ({U_INIT, U_START_FAILED, U_STOPPED} \X {U_STARTING})
    \cup {<<U_STARTING, U_RUNNING>>, <<U_STARTING, U_START_FAILED>>,
           <<U_RUNNING, U_STOPPING>>, <<U_RUNNING, U_STOPPED>>,
           <<U_STOPPING, U_STOPPED>>}

\* C15: resource state machine edges. Every change of the resource state
\* follows an edge: startable -> starting, starting -> running, starting ->
\* start-failed, running -> stopping, running -> stopped, stopping ->
\* stopped; and start-failed is entered only from starting and only because
\* the creation hook failed.
C15_OnlyEdges ==
  \A i \in 1..Len(uEmitted) :
    /\ uEmitted[i].oldState # uEmitted[i].to =>
         <<uEmitted[i].oldState, uEmitted[i].to>> \in Edges
    /\ uEmitted[i].to = U_START_FAILED =>
         uEmitted[i].oldState = U_STARTING /\ uEmitted[i].err = "create"

\* The creation hook of the call calls[i] fails in the step.
CreationFails(i) ==
  calls[i].stage = "creating" /\ Settles(i) /\ step'.op = "CreateFail"

\* The waiters of the events in `events` are aborted with err, in this order
\* and before any broadcast of the step; nothing else is in the trace.
AbortedFirst(events, err) ==
  /\ Len(trace') = Len(events)
  /\ \A k \in 1..Len(events) :
       /\ trace'[k].k = "abort"
       /\ trace'[k].ev = events[k]
       /\ trace'[k].err = err
       /\ trace'[k].at = 0

\* What the catch of Unreliable.start() does with a creation failure.
FailureHandled(i) ==
  /\ AbortedFirst(abortOnStartFailure, "create")
  /\ Len(uEmitted') = 1
  /\ uEmitted'[1].to = U_START_FAILED
  /\ uEmitted'[1].oldState = uState
  /\ uEmitted'[1].err = "create"
  /\ uState' = U_START_FAILED
  /\ RejectedWith(i, "create")

\* C16: creation failure handling. When the creation hook fails, the waiters
\* of the abortOnStartFailure events are aborted with the error, then the
\* state becomes start-failed with a broadcast that carries the previous
\* state and the error, then the error is re-raised to the caller; the handle
\* stays null and no handle subscription exists afterwards.
C16_CreationFailure ==
  [][\A i \in 1..Len(calls) :
       CreationFails(i) =>
         /\ FailureHandled(i)
         /\ uObj' = 0
         /\ uDisp' = {}]_vars

\* The part of C16 about what the catch does (without the handle).
C16_HandlingOnly ==
  [][\A i \in 1..Len(calls) : CreationFails(i) => FailureHandled(i)]_vars

\* The handle h the resource holds, with its listeners attached, emits a
\* death event in the step, the state being running or stopping.
DiesHeld(h) ==
  /\ h \in live /\ h \notin live'
  /\ uObj = h /\ h \in uDisp
  /\ uState \in {U_RUNNING, U_STOPPING}

\* C17: death handling. When a death event fires on the live handle, the one
\* _uObj refers to (state running or stopping), the resource, in this order,
\* broadcasts and enters stopped with the death-event arguments as reason,
\* clears the handle, releases every subscription on the handle, and aborts
\* the waiters of the abortOnDeath events with a death error that carries the
\* handle that died and the death-event arguments.
C17_DeathHandling ==
  [][\A h \in live :
       DiesHeld(h) =>
         /\ uState' = U_STOPPED /\ uObj' = 0 /\ uDisp' = {}
         /\ \E j \in 1..Len(uEmitted'), d \in 1..Len(trace') :
              /\ uEmitted'[j].to = U_STOPPED
              /\ uEmitted'[j].oldState \in {U_RUNNING, U_STOPPING}
              /\ uEmitted'[j].reason = h
              /\ uEmitted'[j].uObj = h
              /\ uEmitted'[j].after = U_STOPPED
              /\ trace'[d].k = "dispose"
              /\ trace'[d].at = j
              /\ trace'[d].uObj = 0
              /\ h \in trace'[d].uDisp
              /\ Len(trace') = d + Len(abortOnDeath)
              /\ \A k \in 1..Len(abortOnDeath) :
                   /\ trace'[d + k].k = "abort"
                   /\ trace'[d + k].ev = abortOnDeath[k]
                   /\ trace'[d + k].err = "death"
                   /\ trace'[d + k].h = h
                   /\ trace'[d + k].at = j
                   /\ trace'[d + k].uObj = 0
                   /\ trace'[d + k].uDisp = {}]_vars

\* the handle of a running resource watched by the Daemon has died
C17_Witness ==
  /\ Len(uEmitted) = 1
  /\ uEmitted[1].to = U_STOPPED
  /\ uEmitted[1].oldState = U_RUNNING
  /\ uEmitted[1].dSeen = RUNNING
  /\ uEmitted[1].reason = 1
  /\ Len(trace) = 4
  /\ trace[1].k = "death"
  /\ trace[4].k = "abort"
  /\ trace[4].h = 1
  /\ uObj = 0
  /\ uDisp = {}
  /\ live = {}

\* What holds of an abortOnDeath() call in every outcome: it returns what won
\* the race, the token is aborted and the listeners the call installed are
\* gone; a death error carries the handle the call captured and the arguments
\* of that handle's death event.
ReturnsCleanly(r) ==
  /\ r.job.aborted
  /\ ~r.job.listening
  /\ thrown = (IF r.outcome = "ok" THEN "none" ELSE r.outcome)
  /\ r.outcome = "death" =>
       /\ r.deathFired
       /\ r.err.h = r.job.h
       /\ r.err.h # 0
       /\ r.err.reason = r.job.h
       /\ r.job.h \notin live

C19_HandlePresence ==
  /\ uState \in {U_RUNNING, U_STOPPING} => uObj # 0
  /\ uState \in {U_INIT, U_START_FAILED, U_STOPPED} => uObj = 0

\* RETRY_SCHEDULED n was broadcast in the last step; the timer's callback has
\* just run for attempt n.
RetryAnnounced(n) ==
  \E i \in Emitted(EV_RETRY_SCHEDULED) : emitted[i].n = n
RetryFired(n) ==
  /\ \E i \in Emitted(EV_STARTING) :
       emitted[i].n = n /\ emitted[i].seen = RETRY_SCHEDULED
  /\ dState = STARTING
  /\ retryTimer = 0
\* Daemon.start() has just been called; Daemon.stop() was called and left
\* the Daemon dead without timer.
JustStarted == \E i \in Emitted(EV_STARTING) : emitted[i].seen = INIT
Stopped == stopFrom # "none" /\ dState = DEAD /\ timers = <<>>

C20_SingleStart ==
  \A n \in 1..MaxAttemptBound :
    (RetryAnnounced(n) /\ nStart = 1 /\ nStop = 0)
      ~> (RetryFired(n) \/ nStart # 1 \/ nStop # 0)

\* The waiters settled in the step with the outcome `how`.
Woken(how) == {k \in 1..Len(woken) : woken[k].how = how}

\* C21: waitForState(s). In the state s the call returns at once and registers
\* no waiter; otherwise it registers one waiter of the event s, which is
\* resolved only in a step that broadcasts a transition to s (and every such
\* broadcast resolves the waiters of s), or else is rejected by a timeout, a
\* cancellation or an abort.
C21_WaitForState ==
  [][/\ nWait' # nWait =>
          /\ uState' = uState
          /\ woken' = <<>>
          /\ IF uState = waited'.dst
               THEN waited'.how = "returned" /\ waiters' = waiters
               ELSE /\ waited'.how = "waiting"
                    /\ waiters' = [waiters EXCEPT ![waited'.dst] = @ + 1]
     /\ \A ev \in AllStates :
          waiters'[ev] < waiters[ev] =>
            \E k \in 1..Len(woken') :
              /\ woken'[k].ev = ev
              /\ woken'[k].how \in {"resolve", "abort", "timeout", "cancelled"}
     /\ \A k \in Woken("resolve")' :
          /\ woken'[k].at \in 1..Len(uEmitted')
          /\ uEmitted'[woken'[k].at].to = woken'[k].ev
     /\ \A i \in 1..Len(uEmitted') : waiters'[uEmitted'[i].to] = 0]_vars

\* a call in state running for running has returned at once, while the
\* waiter of an earlier call for stopped is pending
C21_Witness ==
  /\ nWait = 2
  /\ waited = [dst |-> U_RUNNING, how |-> "returned"]
  /\ uState = U_RUNNING
  /\ waiters[U_STOPPED] = 1
  /\ waiters[U_RUNNING] = 0

\* The Daemon dies in the step: the last allowed attempt has failed, or
\* Daemon.stop() was called on a Daemon that was not dead.
DaemonDies == dState # DEAD /\ dState' = DEAD

\* C22: died event. Whenever the Daemon dies, a `died` event is broadcast:
\* with the StartFailureError (retryIn = -1) when the last allowed attempt
\* failed, with null when Daemon.stop() was called.
C22_DiedBroadcast ==
  [][DaemonDies =>
       \E i \in Emitted(EV_DIED)' :
         IF nStop' # nStop THEN emitted'[i].retryIn = 0
         ELSE emitted'[i].retryIn = -1]_vars

\* C23 (I3): clean attempt start. At every STARTING broadcast, of a first
\* attempt or of a retry, no retry timer is pending and the Daemon's
\* subscription list is empty: a subscription to the stopped transition left
\* from a previous run has been released.
C23_CleanAttemptStart ==
  \A i \in Emitted(EV_STARTING) :
    /\ emitted[i].retryTimer = 0
    /\ emitted[i].timers = <<>>
    /\ emitted[i].dDisp = 0
    /\ dDisp = 0

\* Daemon.start() was called again while the resource, watched by the
\* Daemon, was running
C23_Witness ==
  /\ nStart = 2 /\ nStop = 0 /\ nUser = 0
  /\ nHandles = 1
  /\ uState = U_RUNNING
  /\ uObj \in live
  /\ Len(calls) = 1
  /\ calls[1].stage = "asserted"
  /\ Len(emitted) = 1
  /\ emitted[1].ev = EV_STARTING
  /\ emitted[1].seen = INIT
  /\ emitted[1].dDisp = 0

\* The handles a death event of which fired in the last step.
DeathEvents == {trace[k].h : k \in {j \in 1..Len(trace) : trace[j].k = "death"}}

\* C24: stop then death. Unreliable.stop() in a stoppable state with a
\* handle broadcasts and enters stopping, then invokes the stop hook, and does
\* not set the state to stopped itself: unless a death event of the handle
\* fires, the state is stopping afterwards, with the handle and its death
\* listeners in place, also when the hook threw. Every stopped broadcast is
\* made for a death event of a handle, and a death event of the held handle
\* in state stopping leads to stopped.
C24_StopThenDeath ==
  [][/\ \A k \in 1..Len(trace') :
          trace'[k].k = "stopHook" =>
            /\ uState \in stoppableStates /\ uObj # 0
            /\ trace'[k].h = uObj
            /\ trace'[k].at \in 1..Len(uEmitted')
            /\ uEmitted'[trace'[k].at].to = U_STOPPING
            /\ uEmitted'[trace'[k].at].oldState = uState
            /\ uEmitted'[trace'[k].at].after = U_STOPPING
            /\ uEmitted'[trace'[k].at].uObj = uObj
            /\ IF DeathEvents' = {}
                 THEN uState' = U_STOPPING /\ uObj' = uObj /\ uObj \in uDisp'
                 ELSE uState' = U_STOPPED /\ uObj \notin live'
     /\ (thrown' = "hook" \/ Swallowed("hook")') =>
          /\ Invoked("stopHook")'
          /\ DeathEvents' = {}
          /\ uState' = U_STOPPING
     /\ \A i \in UEmitted(U_STOPPED)' : uEmitted'[i].reason \in DeathEvents'
     /\ (uState' = U_STOPPED /\ uState # U_STOPPED) => UEmitted(U_STOPPED)' # {}
     /\ \A h \in live :
          (DiesHeld(h) /\ uState = U_STOPPING) => uState' = U_STOPPED]_vars

\* stop() was called on a running resource and the stop hook threw
C24_Witness ==
  /\ thrown = "hook"
  /\ nUser > 0
  /\ uState = U_STOPPING
  /\ uObj \in live
  /\ uObj \in uDisp
  /\ Len(uEmitted) = 1
  /\ uEmitted[1].oldState = U_RUNNING

\* C25: terminal failure aborts RUNNING waiters. When an attempt with
\* nthAttempt >= maxAttempt fails, the Daemon broadcasts START_FAILED with
\* retryIn = -1, sets the status dead, and then aborts every pending waiter of
\* the RUNNING event with that same StartFailureError; after the failure of an
\* attempt with nthAttempt < maxAttempt the RUNNING waiters are not aborted.
C25_TerminalAbort ==
  [][\A i \in 1..Len(calls) :
       Resumes(i, "rejected") =>
         IF calls[i].n >= maxAttempt
           THEN /\ FailureBroadcast(calls[i].n)
                /\ dState' = DEAD
                /\ dWaiters' = 0
                /\ Len(dWoken') = 1
                /\ dWoken'[1].how = "abort"
                /\ dWoken'[1].n = dWaiters
                /\ dWoken'[1].seen = DEAD
                /\ dWoken'[1].at = Len(emitted')
                /\ dWoken'[1].err = StartFailure(Last(emitted').n,
                                                 Last(emitted').retryIn)
                /\ dWoken'[1].err = StartFailure(calls[i].n, -1)
           ELSE dWaiters' = dWaiters /\ dWoken' = <<>>]_vars

\* the last allowed attempt, the second, has failed with two waiters of
\* RUNNING pending
C25_Witness ==
  /\ maxAttempt = 2
  /\ dState = DEAD
  /\ nStop = 0
  /\ Len(dWoken) = 1
  /\ dWoken[1].how = "abort"
  /\ dWoken[1].n = 2
  /\ dWoken[1].err = StartFailure(2, -1)
  /\ dWaiters = 0
  /\ Last(emitted).ev = EV_START_FAILED

\* Only the Daemon has driven the resource: no direct call of the resource's
\* start(), stop() or abortOnDeath().
DaemonDriven == nUser = 0

\* C26: timer/status agreement. In every state reached through Daemon.start(),
\* Daemon.stop(), creation outcomes, resource deaths and timer firings, a
\* retry timer is pending if and only if the status is retry-scheduled.
C26_TimerStatusAgreement ==
  DaemonDriven => ((timers # <<>>) <=> (dState = RETRY_SCHEDULED))

\* The same for at most one Daemon.start(), with or without Daemon.stop().
C26_SingleStart ==
  (DaemonDriven /\ nStart <= 1) =>
    ((timers # <<>>) <=> (dState = RETRY_SCHEDULED))

\* C27: running means alive and watched. Whenever the Daemon status is
\* running, the resource is running or stopping, the handle it holds is
\* alive, and the Daemon holds exactly one listener on the stopped transition.
C27_RunningAliveWatched ==
  dState = RUNNING =>
    /\ uState \in {U_RUNNING, U_STOPPING}
    /\ uObj \in live
    /\ dDisp = 1

\* The handles an error event of which was handled in the last step.
ErrorEvents == {trace[k].h : k \in {j \in 1..Len(trace) : trace[j].k = "abortAll"}}

\* C28: error event frame. An error event of a handle the resource listens to
\* rejects every pending waiter of the resource, whatever the state it waits
\* for, with that error, and nothing else: no broadcast, and the state, the
\* handle and the listeners on the handle (those for its death events
\* included) are as before, so that a resource that was running or stopping
\* stays so.
C28_ErrorFrame ==
  [][ErrorEvents' # {} =>
       /\ ErrorEvents' \subseteq uDisp
       /\ \A ev \in AllStates :
            /\ waiters'[ev] = 0
            /\ waiters[ev] > 0 =>
                 \E k \in Woken("abort")' :
                   /\ woken'[k].ev = ev
                   /\ woken'[k].n = waiters[ev]
       /\ \A k \in 1..Len(woken') :
            woken'[k].how = "abort" /\ woken'[k].err = "error"
       /\ uEmitted' = <<>> /\ emitted' = <<>>
       /\ uState' = uState /\ uObj' = uObj /\ uDisp' = uDisp
       /\ live' = live /\ handled' = handled
       /\ dState' = dState /\ dDisp' = dDisp /\ timers' = timers
       /\ uState \in {U_RUNNING, U_STOPPING} =>
            uState' \in {U_RUNNING, U_STOPPING}]_vars

\* the held, live handle of a running resource has raised an error event while
\* a waitForState() call was pending, and the waiter was rejected with it
C28_Witness ==
  /\ ErrorEvents = {uObj}
  /\ uState = U_RUNNING
  /\ uObj \in live
  /\ uObj \in uDisp
  /\ Len(woken) = 1
  /\ woken[1].how = "abort"
  /\ woken[1].err = "error"
  /\ woken[1].n = 1

\* The creation hook of a start() call is in flight and has created handle h.
InFlight(h) ==
  \E i \in 1..Len(calls) : calls[i].stage = "creating" /\ calls[i].h = h

\* The resource is running and holds a handle that is dead.
HoldsDead == uState = U_RUNNING /\ uObj # 0 /\ uObj \notin live

\* What holds of a death before running whatever else happens: at the running
\* broadcast the handle is assigned and nothing listens to it yet, the
\* listeners being in place when the step ends; a death event of a handle
\* whose creation hook is in flight changes nothing and is broadcast to
\* nobody; when the hook returns, the resource enters running with that
\* handle, dead or alive.
DeathInFlightUnobserved ==
  /\ \A i \in UEmitted(U_RUNNING)' :
       /\ uEmitted'[i].uObj # 0
       /\ uEmitted'[i].uObj \notin uEmitted'[i].uDisp
       /\ uEmitted'[i].uObj \in uDisp'
  /\ \A h \in DeathEvents' :
       InFlight(h) =>
         /\ h \notin uDisp
         /\ uState' = uState /\ uObj' = uObj /\ uDisp' = uDisp
         /\ uEmitted' = <<>> /\ emitted' = <<>> /\ woken' = <<>>
         /\ calls' = calls /\ dState' = dState /\ timers' = timers
  /\ step'.op = "CreateOk" =>
       /\ InFlight(uObj')
       /\ uState' = U_RUNNING
       /\ uObj' \in uDisp'

C29_UnlessStartFails ==
  [][/\ DeathInFlightUnobserved
     /\ (HoldsDead /\ uState' # U_RUNNING) =>
          \/ uObj \in DeathEvents'
          \/ Invoked("stopHook")'
          \/ UEmitted(U_START_FAILED)' # {}]_vars

\* C30: one death per handle. A stopped transition is broadcast for a handle
\* at most once, for the first of its death events that the resource handles;
\* a further death event of that handle changes nothing (state, handle,
\* listeners), is broadcast to nobody (neither the resource's observers nor
\* the Daemon's), settles no waiter and wakes no abortOnDeath() call, also
\* when the resource is running again with a new handle.
C30_OneDeathPerHandle ==
  [][/\ \A i \in UEmitted(U_STOPPED)' :
          /\ uEmitted'[i].reason \notin handled
          /\ uEmitted'[i].reason \in handled'
          /\ \A j \in UEmitted(U_STOPPED)' :
               uEmitted'[j].reason = uEmitted'[i].reason => j = i
     /\ \A h \in DeathEvents' :
          h \in handled =>
            /\ uState' = uState /\ uObj' = uObj /\ uDisp' = uDisp
            /\ uEmitted' = <<>> /\ emitted' = <<>>
            /\ woken' = <<>> /\ waiters' = waiters
            /\ \A k \in 1..Len(trace') : trace'[k].k = "death"
            /\ jobs' = jobs
            /\ dState' = dState /\ dDisp' = dDisp /\ timers' = timers]_vars

\* the first handle, whose death the resource has handled, emits its death
\* event again while the resource is running with the second handle
C30_Witness ==
  /\ DeathEvents = {1}
  /\ 1 \in handled
  /\ uState = U_RUNNING
  /\ uObj = 2
  /\ 2 \in live
  /\ 2 \in uDisp
  /\ uEmitted = <<>>

====
